---- MODULE Spec2Model ----
(***************************************************************************)
(* Model of the data core of the HEX app: the JSON document cache keyed by *)
(* file modification time (utility.py), the free-text time parser          *)
(* (utility.py) and the task store built on them (calling.py).             *)
(***************************************************************************)
EXTENDS Integers, Sequences, FiniteSets, TLC

(* ------------------------------------------------------------------ *)
(* Bounds of the model                                                  *)
(* ------------------------------------------------------------------ *)

\* the file system's clock takes the values 0..MaxClock (one value = one
\* modification-time tick)
MaxClock == 1

\* number of identifiers uuid4 hands out in one run
MaxTasks == 1

(* ------------------------------------------------------------------ *)
(* Paths, users, Python values                                          *)
(* ------------------------------------------------------------------ *)

TASKS_FILE == "tasks.json"

NOTES_FILE == "notes.json"

USER_PREFS_FILE == "user_prefs.json"

Paths == {TASKS_FILE, NOTES_FILE, USER_PREFS_FILE}

\* the paths that callers of the generic layer and other programs use
CachePaths == {TASKS_FILE, NOTES_FILE}

Users == {"u1", "u2"}

\* the callers whose add_note calls can overlap
Writers == {"w1", "w2"}

\* A Python value is a tagged record, so that {} , [] and None stay distinct.
PyNone == [t |-> "none", v |-> <<>>]

PyDict(d) == [t |-> "dict", v |-> d]

PyList(s) == [t |-> "list", v |-> s]

PyBool(b) == [t |-> "bool", v |-> b]

\* the document {} : a mapping with no key
EmptyDoc == [u \in {} |-> <<>>]

\* Python truthiness of a value: None, {} and [] are falsy
Truthy(x) ==
    CASE x.t = "none" -> FALSE
      [] x.t = "dict" -> DOMAIN x.v # {}
      [] x.t = "list" -> Len(x.v) > 0
      [] x.t = "bool" -> x.v
      [] OTHER -> TRUE

\* dict.get(key, []) on a document
DictGet(d, k) == IF k \in DOMAIN d THEN d[k] ELSE <<>>

\* d[k] = val on a document (adds the key when it is missing)
DictSet(d, k, val) == [u \in (DOMAIN d) \cup {k} |-> IF u = k THEN val ELSE d[u]]

(* ------------------------------------------------------------------ *)
(* Timestamps (datetime) and their ISO text                             *)
(* ------------------------------------------------------------------ *)

DateTime(d, h, m, s, us) == [day |-> d, hour |-> h, minute |-> m, second |-> s, micro |-> us]

\* a < b on datetimes, field by field
DtLess(a, b) ==
    \/ a.day < b.day
    \/ a.day = b.day /\ a.hour < b.hour
    \/ a.day = b.day /\ a.hour = b.hour /\ a.minute < b.minute
    \/ a.day = b.day /\ a.hour = b.hour /\ a.minute = b.minute /\ a.second < b.second
    \/ a.day = b.day /\ a.hour = b.hour /\ a.minute = b.minute /\ a.second = b.second
       /\ a.micro < b.micro

DtLeq(a, b) == a = b \/ DtLess(a, b)

\* dt + timedelta(days=n)
AddDays(dt, n) == [dt EXCEPT !.day = @ + n]

\* dt + timedelta(hours=n)
AddHours(dt, n) ==
    [dt EXCEPT !.hour = (dt.hour + n) % 24, !.day = dt.day + ((dt.hour + n) \div 24)]

\* dt + timedelta(minutes=n)
AddMinutes(dt, n) ==
    AddHours([dt EXCEPT !.minute = (dt.minute + n) % 60], (dt.minute + n) \div 60)

\* datetime.isoformat(): the fraction is written only when microsecond # 0
IsoFormat(dt) ==
    [date |-> dt.day, hh |-> dt.hour, mm |-> dt.minute, ss |-> dt.second,
     frac |-> IF dt.micro = 0 THEN <<>> ELSE <<dt.micro>>]

\* a stored time text that is no ISO timestamp
BadIso == [date |-> -1, hh |-> 0, mm |-> 0, ss |-> 0, frac |-> <<>>]

\* datetime.fromisoformat(): raises ValueError on a text that is no timestamp
IsoParses(s) == s.date >= 0 /\ s.hh \in 0..23 /\ s.mm \in 0..59 /\ s.ss \in 0..59

FromIsoFormat(s) ==
    DateTime(s.date, s.hh, s.mm, s.ss, IF s.frac = <<>> THEN 0 ELSE s.frac[1])

(* ------------------------------------------------------------------ *)
(* parse_time_input: a text is a sequence of one-character strings      *)
(* ------------------------------------------------------------------ *)

Digits == {"0", "1", "2", "3", "4", "5", "6", "7", "8", "9"}

IsDigit(c) == c \in Digits

DigitVal(c) ==
    CASE c = "0" -> 0 [] c = "1" -> 1 [] c = "2" -> 2 [] c = "3" -> 3 [] c = "4" -> 4
      [] c = "5" -> 5 [] c = "6" -> 6 [] c = "7" -> 7 [] c = "8" -> 8 [] c = "9" -> 9

\* \s of the regular expressions
IsSpace(c) == c = " "

\* str.lower() on one character
Lower(c) ==
    CASE c = "A" -> "a" [] c = "P" -> "p" [] c = "M" -> "m" [] c = "I" -> "i"
      [] c = "N" -> "n" [] c = "H" -> "h" [] OTHER -> c

\* the character at position i, "" past either end
At(t, i) == IF i \in 1..Len(t) THEN t[i] ELSE ""

\* text.lower().strip()
LowerStrip(text) ==
    LET low == [i \in 1..Len(text) |-> Lower(text[i])]
        keep == {i \in 1..Len(low) : ~IsSpace(low[i])}
    IN  IF keep = {} THEN <<>>
        ELSE LET a == CHOOSE i \in keep : \A j \in keep : i <= j
                 b == CHOOSE i \in keep : \A j \in keep : j <= i
             IN  SubSeq(low, a, b)

\* n digits start at position i
DigitsAt(t, i, n) == \A k \in 0..(n - 1) : IsDigit(At(t, i + k))

\* int() of the digits at positions i..j
RECURSIVE NumVal(_, _, _)
NumVal(t, i, j) == IF j < i THEN 0 ELSE NumVal(t, i, j - 1) * 10 + DigitVal(t[j])

\* the first position >= j that holds no whitespace (greedy \s*)
SkipSpaces(t, j) ==
    CHOOSE k \in j..(Len(t) + 1) :
        /\ \A x \in j..(k - 1) : IsSpace(At(t, x))
        /\ ~IsSpace(At(t, k))

\* the first position >= j that holds no digit (greedy \d+)
SkipDigits(t, j) ==
    CHOOSE k \in j..(Len(t) + 1) :
        /\ \A x \in j..(k - 1) : IsDigit(At(t, x))
        /\ ~IsDigit(At(t, k))

\* the characters of w start at position i
StartsWith(t, i, w) == \A k \in 1..Len(w) : At(t, i + k - 1) = w[k]

NoMatch == [found |-> FALSE]

\* one way the engine can match (\d{1,2})(?::(\d{2}))?\s*(am|pm) at position i:
\* nd digits, then the minute group or not, then spaces, then am or pm
MeridiemTry(t, i, nd, withMin) ==
    LET j == i + nd + (IF withMin THEN 3 ELSE 0)
        k == SkipSpaces(t, j)
    IN  /\ DigitsAt(t, i, nd)
        /\ withMin => (At(t, i + nd) = ":" /\ DigitsAt(t, i + nd + 1, 2))
        /\ At(t, k) \in {"a", "p"}
        /\ At(t, k + 1) = "m"

\* the engine's order of attempts at one position: greedy digits, greedy group
MeridiemOrder == <<[nd |-> 2, wm |-> TRUE], [nd |-> 2, wm |-> FALSE],
                   [nd |-> 1, wm |-> TRUE], [nd |-> 1, wm |-> FALSE]>>

\* re.search(r'(\d{1,2})(?::(\d{2}))?\s*(am|pm)', text): leftmost match
SearchMeridiem(t) ==
    LET ok(i) == {n \in 1..4 : MeridiemTry(t, i, MeridiemOrder[n].nd, MeridiemOrder[n].wm)}
        starts == {i \in 1..Len(t) : ok(i) # {}}
    IN  IF starts = {} THEN NoMatch
        ELSE LET i == CHOOSE x \in starts : \A y \in starts : x <= y
                 n == CHOOSE x \in ok(i) : \A y \in ok(i) : x <= y
                 nd == MeridiemOrder[n].nd
                 wm == MeridiemOrder[n].wm
                 k == SkipSpaces(t, i + nd + (IF wm THEN 3 ELSE 0))
             IN  [found |-> TRUE,
                  g1 |-> NumVal(t, i, i + nd - 1),
                  g2 |-> IF wm THEN <<NumVal(t, i + nd + 1, i + nd + 2)>> ELSE <<>>,
                  g3 |-> IF At(t, k) = "a" THEN "am" ELSE "pm"]

\* (\d{1,2}):(\d{2}) at position i with nd digits of hour
ClockTry(t, i, nd) ==
    /\ DigitsAt(t, i, nd)
    /\ At(t, i + nd) = ":"
    /\ DigitsAt(t, i + nd + 1, 2)

\* re.search(r'(\d{1,2}):(\d{2})', text)
SearchClock(t) ==
    LET ok(i) == {nd \in {1, 2} : ClockTry(t, i, nd)}
        starts == {i \in 1..Len(t) : ok(i) # {}}
    IN  IF starts = {} THEN NoMatch
        ELSE LET i == CHOOSE x \in starts : \A y \in starts : x <= y
                 nd == IF 2 \in ok(i) THEN 2 ELSE 1
             IN  [found |-> TRUE,
                  g1 |-> NumVal(t, i, i + nd - 1),
                  g2 |-> NumVal(t, i + nd + 1, i + nd + 2)]

\* the alternatives of (minute|hour|min|hr), in the order the engine tries them
UnitWords == << <<"m", "i", "n", "u", "t", "e">>, <<"h", "o", "u", "r">>,
                <<"m", "i", "n">>, <<"h", "r">> >>

UnitNames == <<"minute", "hour", "min", "hr">>

\* in\s+(\d+)\s*(minute|hour|min|hr)s? at position i
RelativeTry(t, i) ==
    LET k == SkipSpaces(t, i + 2)
        e == SkipDigits(t, k)
        s == SkipSpaces(t, e)
    IN  /\ StartsWith(t, i, <<"i", "n">>)
        /\ IsSpace(At(t, i + 2))
        /\ e > k
        /\ \E n \in 1..4 : StartsWith(t, s, UnitWords[n])

\* re.search(r'in\s+(\d+)\s*(minute|hour|min|hr)s?', text)
SearchRelative(t) ==
    LET starts == {i \in 1..Len(t) : RelativeTry(t, i)}
    IN  IF starts = {} THEN NoMatch
        ELSE LET i == CHOOSE x \in starts : \A y \in starts : x <= y
                 k == SkipSpaces(t, i + 2)
                 e == SkipDigits(t, k)
                 s == SkipSpaces(t, e)
                 n == CHOOSE x \in 1..4 :
                          /\ StartsWith(t, s, UnitWords[x])
                          /\ \A y \in 1..(x - 1) : ~StartsWith(t, s, UnitWords[y])
             IN  [found |-> TRUE, g1 |-> NumVal(t, k, e - 1), g2 |-> UnitNames[n]]

\* results of the parser: a timestamp, None, or an exception leaving the call
ParsedTime(dt) == [kind |-> "time", dt |-> dt]

ParsedNone == [kind |-> "none"]

ParsedRaise == [kind |-> "raise"]

\* the roll to the next day taken whenever the target is not strictly after
\* the second reading, also when it equals it
ClockTarget_rolls_on_equal(h, m, now1, now2) ==
    IF h \notin 0..23 \/ m \notin 0..59 THEN ParsedRaise
    ELSE LET target == DateTime(now1.day, h, m, 0, 0)
         IN  ParsedTime(IF DtLeq(target, now2) THEN AddDays(target, 1) ELSE target)

\* datetime.replace(hour=h, minute=m, second=0, microsecond=0) and the roll to
\* the next day; replace raises ValueError outside 0..23 and 0..59.
\* now1 and now2 are the two readings of datetime.now()
ClockTarget(h, m, now1, now2) ==
    IF h \notin 0..23 \/ m \notin 0..59 THEN ParsedRaise
    ELSE LET target == DateTime(now1.day, h, m, 0, 0)
         IN  ParsedTime(IF DtLess(target, now2) THEN AddDays(target, 1) ELSE target)

\* lines 227-241: the branch of the meridiem form, m the match
MeridiemTime(m, now1, now2) ==
    ClockTarget(IF m.g3 = "pm" /\ m.g1 # 12 THEN m.g1 + 12
                ELSE IF m.g3 = "am" /\ m.g1 = 12 THEN 0
                ELSE m.g1,
                IF m.g2 = <<>> THEN 0 ELSE m.g2[1],
                now1, now2)

\* the relative form computed from now with its seconds cut off
RelativeTime_truncated(m, now) ==
    IF m.g2 \in {"minute", "min"}
    THEN ParsedTime(AddMinutes([now EXCEPT !.second = 0, !.micro = 0], m.g1))
    ELSE ParsedTime(AddHours([now EXCEPT !.second = 0, !.micro = 0], m.g1))

\* lines 255-262: the branch of the relative form, m the match
RelativeTime(m, now) ==
    IF m.g2 \in {"minute", "min"} THEN ParsedTime(AddMinutes(now, m.g1))
    ELSE ParsedTime(AddHours(now, m.g1))

\* the parser trying the relative form first, then H:MM, then the meridiem form
ParseMatches_reversed(m1, m2, m3, now1, now2) ==
    IF m3.found THEN RelativeTime(m3, now1)
    ELSE IF m2.found THEN ClockTarget(m2.g1, m2.g2, now1, now2)
    ELSE IF m1.found THEN MeridiemTime(m1, now1, now2)
    ELSE ParsedNone

\* a parser that guesses "now" for a text that matches no form
ParseMatches_guess(m1, m2, m3, now1, now2) ==
    IF m1.found THEN MeridiemTime(m1, now1, now2)
    ELSE IF m2.found THEN ClockTarget(m2.g1, m2.g2, now1, now2)
    ELSE IF m3.found THEN RelativeTime(m3, now1)
    ELSE ParsedTime(now1)

\* the three forms in their fixed order, given the result of each search
ParseMatches(m1, m2, m3, now1, now2) ==
    IF m1.found THEN MeridiemTime(m1, now1, now2)
    ELSE IF m2.found THEN ClockTarget(m2.g1, m2.g2, now1, now2)
    ELSE IF m3.found THEN RelativeTime(m3, now1)
    ELSE ParsedNone

parse_time_input(text, now1, now2) ==
    ParseMatches(SearchMeridiem(LowerStrip(text)), SearchClock(LowerStrip(text)),
                 SearchRelative(LowerStrip(text)), now1, now2)

(* ------------------------------------------------------------------ *)
(* Files and the JSON text they hold                                    *)
(* ------------------------------------------------------------------ *)

\* json.dump(data, f): the text of a document
JsonDump(d) == [valid |-> TRUE, doc |-> d]

\* a text that json.load rejects (empty, truncated, or not JSON at all)
CorruptText == [valid |-> FALSE, doc |-> EmptyDoc]

\* json.load(f) of a text that parses
JsonLoad(text) == text.doc

NoFile == [exists |-> FALSE, text |-> CorruptText, mtime |-> 0]

FileOf(text, mtime) == [exists |-> TRUE, text |-> text, mtime |-> mtime]

(* ------------------------------------------------------------------ *)
(* State                                                                *)
(* ------------------------------------------------------------------ *)

VARIABLES
    files,          \* path -> the file on disk: exists, text, mtime
    clock,          \* the file system's clock, in modification-time ticks
    cache,          \* DataCache.cache: path -> <<>> or <<document>>
    last_modified,  \* DataCache.last_modified: path -> <<>> or <<mtime>>
    nextId,         \* the number of identifiers uuid4 has handed out
    last,           \* the call that has just run, with its arguments and its result,
                    \* until its caller has taken the result
    pending         \* writer -> <<>> or <<the add_note call of the writer that has
                    \* loaded the notes document and not yet saved it>>

vars == <<files, clock, cache, last_modified, nextId, last, pending>>

(* ------------------------------------------------------------------ *)
(* DataCache                                                            *)
(* ------------------------------------------------------------------ *)

\* DataCache.get without the comparison of modification times: whatever the
\* cache holds for the path is returned
DataCache_get_any(c, lm, fs, p) ==
    IF ~fs[p].exists THEN [data |-> PyNone, cache |-> c, lm |-> lm]
    ELSE IF c[p] # <<>>
         THEN [data |-> PyDict(c[p][1]), cache |-> c, lm |-> lm]
    ELSE IF ~fs[p].text.valid
         THEN [data |-> PyNone, cache |-> c, lm |-> lm]
    ELSE [data |-> PyDict(JsonLoad(fs[p].text)),
          cache |-> [c EXCEPT ![p] = <<JsonLoad(fs[p].text)>>],
          lm |-> [lm EXCEPT ![p] = <<fs[p].mtime>>]]

\* DataCache.get: the value returned and the two dictionaries afterwards.
\* c, lm: cache and last_modified; fs: the files
DataCache_get(c, lm, fs, p) ==
    IF ~fs[p].exists THEN [data |-> PyNone, cache |-> c, lm |-> lm]
    ELSE IF c[p] # <<>> /\ lm[p] = <<fs[p].mtime>>
         THEN [data |-> PyDict(c[p][1]), cache |-> c, lm |-> lm]
    ELSE IF ~fs[p].text.valid
         THEN [data |-> PyNone, cache |-> c, lm |-> lm]
    ELSE [data |-> PyDict(JsonLoad(fs[p].text)),
          cache |-> [c EXCEPT ![p] = <<JsonLoad(fs[p].text)>>],
          lm |-> [lm EXCEPT ![p] = <<fs[p].mtime>>]]

\* invalidate that forgets to delete the entry
DataCache_invalidate_kept(dict, p) == dict

\* one dictionary of DataCache after invalidate(filepath)
DataCache_invalidate(dict, p) == [dict EXCEPT ![p] = <<>>]

\* `default if default else {}`
DefaultOrEmpty(default) == IF Truthy(default) THEN default ELSE PyDict(EmptyDoc)

\* safe_load_json: the value returned, the two dictionaries afterwards, and
\* whether the returned object is the one the cache holds
safe_load_json(c, lm, fs, p, default) ==
    LET g == DataCache_get(c, lm, fs, p)
    IN  IF g.data # PyNone
        THEN [ret |-> g.data, cache |-> g.cache, lm |-> g.lm, aliased |-> TRUE]
        ELSE IF fs[p].exists /\ fs[p].text.valid
        THEN [ret |-> PyDict(JsonLoad(fs[p].text)),
              cache |-> [g.cache EXCEPT ![p] = <<JsonLoad(fs[p].text)>>],
              lm |-> [g.lm EXCEPT ![p] = <<fs[p].mtime>>],
              aliased |-> TRUE]
        ELSE [ret |-> DefaultOrEmpty(default), cache |-> g.cache, lm |-> g.lm,
              aliased |-> FALSE]

\* the ways one call of safe_save_json can end: written; open() refused
\* (PermissionError, the file is not touched); an error after open(..., 'w')
\* has truncated the file (serialization or I/O error while writing)
SaveOutcomes == {"ok", "open_fail", "write_fail"}

\* safe_save_json: the value returned, the dictionaries and the files afterwards
safe_save_json(c, lm, fs, p, d, outcome, clk) ==
    CASE outcome = "ok" ->
            [ret |-> TRUE,
             cache |-> DataCache_invalidate(c, p),
             lm |-> DataCache_invalidate(lm, p),
             files |-> [fs EXCEPT ![p] = FileOf(JsonDump(d), clk)]]
      [] outcome = "open_fail" ->
            [ret |-> FALSE, cache |-> c, lm |-> lm, files |-> fs]
      [] outcome = "write_fail" ->
            [ret |-> FALSE, cache |-> c, lm |-> lm,
             files |-> [fs EXCEPT ![p] = FileOf(CorruptText, clk)]]

\* The caller changes, in place, the document object that a load returned: when
\* that object is the one the cache holds, the cache holds the changed document
MutateLoaded(L, p, d) == IF L.aliased THEN [L.cache EXCEPT ![p] = <<d>>] ELSE L.cache

\* what safe_load_json(p, {}) would return in the current state
LoadView(p) == safe_load_json(cache, last_modified, files, p, PyDict(EmptyDoc)).ret

(* ------------------------------------------------------------------ *)
(* Inputs of the operations                                             *)
(* ------------------------------------------------------------------ *)

\* readings of datetime.now(): 16:00:00 and 18:00:00 of day 0
Now1 == DateTime(0, 16, 0, 0, 0)

Now2 == DateTime(0, 18, 0, 0, 0)

\* the clock readings at which tasks are created and at which they are queried
CreateNows == {Now1}

QueryNows == {Now1, Now2}

\* time texts typed by the user
Text5pm == <<"5", "p", "m">>

TextSoon == <<"s", "o", "o", "n">>

Text2500 == <<"2", "5", ":", "0", "0">>

TimeTexts == {Text5pm, TextSoon, Text2500}

Reasons == {"call"}

Task(id, reason, time, created) ==
    [id |-> id, reason |-> reason, time |-> time, created |-> created,
     completed |-> FALSE, notified |-> FALSE]

\* identifiers of tasks: 1..MaxTasks are the ones uuid4 hands out in this run,
\* 0 is one that was written before this run
TaskIds == 0..MaxTasks

\* the tasks document another program may put in the file: a task whose time
\* text is no timestamp, then a task due at 17:00 of day 0
ExternalDoc ==
    [u \in {"u1"} |->
        <<Task(0, "ext", BadIso, IsoFormat(Now1)),
          Task(0, "ext", IsoFormat(DateTime(0, 17, 0, 0, 0)), IsoFormat(Now1))>>]

\* texts another program may put in a file
ExternalTexts == {CorruptText, JsonDump(EmptyDoc), JsonDump(ExternalDoc)}

\* documents a caller hands to safe_save_json
SaveDocs == {EmptyDoc, [u \in {"u2"} |-> <<>>]}

\* defaults a caller hands to safe_load_json: None, {}, [], a non-empty document
LoadDefaults == {PyNone, PyDict(EmptyDoc), PyList(<<>>), PyDict([u \in {"u2"} |-> <<>>])}

(* ------------------------------------------------------------------ *)
(* The call that has just run                                           *)
(* ------------------------------------------------------------------ *)

\* op, path, user, arg: the call; ret: what it returned; outcome: how its save
\* ended ("none" when it saved nothing); pre: the modification time the cache
\* had recorded for the path when the call began
Did(op, path, user, arg, ret, outcome, pre) ==
    [op |-> op, path |-> path, user |-> user, arg |-> arg, ret |-> ret,
     outcome |-> outcome, pre |-> pre]

\* an exception that leaves the call
PyRaise == [t |-> "raise", v |-> <<>>]

\* no call is delivering a result
Idle == Did("idle", "", "", PyNone, PyNone, "none", <<>>)

(* ------------------------------------------------------------------ *)
(* Initial state: first run, no file and an empty cache                 *)
(* ------------------------------------------------------------------ *)

Init ==
    /\ files = [p \in Paths |-> NoFile]
    /\ clock = 0
    /\ cache = [p \in Paths |-> <<>>]
    /\ last_modified = [p \in Paths |-> <<>>]
    /\ nextId = 0
    /\ last = Idle
    /\ pending = [w \in Writers |-> <<>>]

(* ------------------------------------------------------------------ *)
(* Generic load and save, DataCache.clear, the environment              *)
(* ------------------------------------------------------------------ *)

\* a caller runs safe_load_json(p, default)
Load(p, default) ==
    LET L == safe_load_json(cache, last_modified, files, p, default)
    IN  /\ last = Idle
        /\ UNCHANGED pending
        /\ cache' = L.cache
        /\ last_modified' = L.lm
        /\ last' = Did("safe_load_json", p, "", default, L.ret, "none", last_modified[p])
        /\ UNCHANGED <<files, clock, nextId>>

\* a caller runs safe_save_json(p, d) on a document of its own
Save(p, d, outcome) ==
    LET S == safe_save_json(cache, last_modified, files, p, d, outcome, clock)
    IN  /\ last = Idle
        /\ UNCHANGED pending
        /\ files' = S.files
        /\ cache' = S.cache
        /\ last_modified' = S.lm
        /\ last' = Did("safe_save_json", p, "", PyDict(d), PyBool(S.ret), outcome,
                       last_modified[p])
        /\ UNCHANGED <<clock, nextId>>

\* DataCache.clear()
Clear ==
    /\ last = Idle
    /\ UNCHANGED pending
    /\ cache' = [p \in Paths |-> <<>>]
    /\ last_modified' = [p \in Paths |-> <<>>]
    /\ UNCHANGED <<files, clock, nextId, last>>

\* the file system's clock moves to the next modification-time tick
Tick ==
    /\ last = Idle
    /\ UNCHANGED pending
    /\ clock < MaxClock
    /\ clock' = clock + 1
    /\ UNCHANGED <<files, cache, last_modified, nextId, last>>

\* another program replaces the content of the file; mt is the modification
\* time the file has afterwards (the current tick, or an older one that a
\* restore brings back)
ExternalEdit(p, text, mt) ==
    /\ last = Idle
    /\ UNCHANGED pending
    /\ files' = [files EXCEPT ![p] = FileOf(text, mt)]
    /\ last' = Did("external_edit", p, "", PyNone, PyNone, "none", last_modified[p])
    /\ UNCHANGED <<clock, cache, last_modified, nextId>>

\* the caller has taken the result of the call; the next call can start
Return ==
    /\ last # Idle
    /\ UNCHANGED pending
    /\ last' = Idle
    /\ UNCHANGED <<files, clock, cache, last_modified, nextId>>

(* ------------------------------------------------------------------ *)
(* TaskChecker                                                          *)
(* ------------------------------------------------------------------ *)

\* the test with task_time < current_time in place of <=
IsPendingTask_strict(task, now) ==
    /\ ~task.completed
    /\ ~task.notified
    /\ IsoParses(task.time)
    /\ DtLess(FromIsoFormat(task.time), now)

\* the test of the loop of get_pending_tasks: a task whose time text raises in
\* fromisoformat is skipped by the bare except
IsPendingTask(task, now) ==
    /\ ~task.completed
    /\ ~task.notified
    /\ IsoParses(task.time)
    /\ DtLeq(FromIsoFormat(task.time), now)

\* the list get_pending_tasks builds from the user's tasks
PendingOf(user_tasks, now) == SelectSeq(user_tasks, LAMBDA task : IsPendingTask(task, now))

\* the loop of mark_task_notified / mark_task_completed: the first task with
\* the id gets the flag, then break
MarkFirst(user_tasks, task_id, flag) ==
    LET hits == {i \in 1..Len(user_tasks) : user_tasks[i].id = task_id}
    IN  IF hits = {} THEN user_tasks
        ELSE LET i == CHOOSE x \in hits : \A y \in hits : x <= y
             IN  [user_tasks EXCEPT ![i] = [@ EXCEPT ![flag] = TRUE]]

\* TaskChecker.get_pending_tasks(user_id) at the clock reading now
get_pending_tasks(user_id, now) ==
    LET L == safe_load_json(cache, last_modified, files, TASKS_FILE, PyDict(EmptyDoc))
        user_tasks == DictGet(L.ret.v, user_id)
    IN  /\ last = Idle
        /\ UNCHANGED pending
        /\ cache' = L.cache
        /\ last_modified' = L.lm
        /\ last' = Did("get_pending_tasks", TASKS_FILE, user_id, now,
                       PyList(PendingOf(user_tasks, now)), "none",
                       last_modified[TASKS_FILE])
        /\ UNCHANGED <<files, clock, nextId>>

\* the body shared by mark_task_notified and mark_task_completed: load, set the
\* flag in place, tasks[user_id] = user_tasks, save (the result of the save is
\* not looked at)
MarkTask(op, flag, user_id, task_id, outcome) ==
    LET L == safe_load_json(cache, last_modified, files, TASKS_FILE, PyDict(EmptyDoc))
        user_tasks == DictGet(L.ret.v, user_id)
        tasks == DictSet(L.ret.v, user_id, MarkFirst(user_tasks, task_id, flag))
        S == safe_save_json(MutateLoaded(L, TASKS_FILE, tasks), L.lm, files,
                            TASKS_FILE, tasks, outcome, clock)
    IN  /\ last = Idle
        /\ UNCHANGED pending
        /\ files' = S.files
        /\ cache' = S.cache
        /\ last_modified' = S.lm
        /\ last' = Did(op, TASKS_FILE, user_id, task_id, PyNone, outcome,
                       last_modified[TASKS_FILE])
        /\ UNCHANGED <<clock, nextId>>

\* TaskChecker.mark_task_notified(user_id, task_id)
mark_task_notified(user_id, task_id, outcome) ==
    MarkTask("mark_task_notified", "notified", user_id, task_id, outcome)

\* TaskChecker.mark_task_completed(user_id, task_id)
mark_task_completed(user_id, task_id, outcome) ==
    MarkTask("mark_task_completed", "completed", user_id, task_id, outcome)

\* TaskChecker.create_task(user_id, reason, time_str) at the clock reading now
create_task(user_id, reason, time_str, now, outcome) ==
    \E target_time \in {parse_time_input(time_str, now, now)} :
    LET arg == [text |-> time_str, reason |-> reason, now |-> now]
        pre == last_modified[TASKS_FILE]
    IN  /\ last = Idle
        /\ UNCHANGED pending
        /\ CASE target_time.kind = "raise" ->
                \* the ValueError of datetime.replace leaves create_task
                /\ last' = Did("create_task", TASKS_FILE, user_id, arg, PyRaise, "none", pre)
                /\ UNCHANGED <<files, clock, cache, last_modified, nextId>>
          [] target_time.kind = "none" ->
                /\ last' = Did("create_task", TASKS_FILE, user_id, arg, PyBool(FALSE), "none",
                               pre)
                /\ UNCHANGED <<files, clock, cache, last_modified, nextId>>
          [] target_time.kind = "time" ->
                LET L == safe_load_json(cache, last_modified, files, TASKS_FILE,
                                        PyDict(EmptyDoc))
                    new_task == Task(nextId + 1, reason, IsoFormat(target_time.dt),
                                     IsoFormat(now))
                    tasks == DictSet(L.ret.v, user_id,
                                     Append(DictGet(L.ret.v, user_id), new_task))
                    S == safe_save_json(MutateLoaded(L, TASKS_FILE, tasks), L.lm, files,
                                        TASKS_FILE, tasks, outcome, clock)
                IN  /\ nextId < MaxTasks
                    /\ nextId' = nextId + 1
                    /\ files' = S.files
                    /\ cache' = S.cache
                    /\ last_modified' = S.lm
                    /\ last' = Did("create_task", TASKS_FILE, user_id, arg, PyBool(TRUE),
                                   outcome, pre)
                    /\ UNCHANGED clock

(* ------------------------------------------------------------------ *)
(* Specifications                                                       *)
(* ------------------------------------------------------------------ *)

\* the operations of the task store
TaskStep ==
    \/ \E u \in Users, now \in QueryNows : get_pending_tasks(u, now)
    \/ \E u \in Users, id \in TaskIds, o \in SaveOutcomes : mark_task_notified(u, id, o)
    \/ \E u \in Users, id \in TaskIds, o \in SaveOutcomes : mark_task_completed(u, id, o)
    \/ \E u \in Users, r \in Reasons, t \in TimeTexts, now \in CreateNows,
          o \in SaveOutcomes : create_task(u, r, t, now, o)

\* loads by other callers, clearing of the cache, the passing of time
CacheStep(ps) ==
    \/ \E p \in ps, d \in LoadDefaults : Load(p, d)
    \/ Clear
    \/ Tick

\* a caller of the generic layer saving a document of its own
SaveStep(ps) == \E p \in ps, d \in SaveDocs, o \in SaveOutcomes : Save(p, d, o)

\* another program writing the file
ExternalStep == \E p \in CachePaths, text \in ExternalTexts, mt \in 0..clock : ExternalEdit(p, text, mt)

Next == TaskStep \/ CacheStep({TASKS_FILE}) \/ SaveStep({TASKS_FILE}) \/ Return

\* the process alone: task store operations, loads, saves, cache clearing
Spec == Init /\ [][Next]_vars

CacheNext == CacheStep(CachePaths) \/ SaveStep(CachePaths) \/ ExternalStep \/ Return

\* the generic layer, with other programs that write its files
SpecCache == Init /\ [][CacheNext]_vars

(* ------------------------------------------------------------------ *)
(* The pending-task query over stored documents                         *)
(* ------------------------------------------------------------------ *)

\* longest task sequence of a stored document
MaxLen == 2

\* stored time texts: no timestamp; 17:00 and 18:00 of day 0; 17:00 of day 1
StoredTimes ==
    {BadIso, IsoFormat(DateTime(0, 17, 0, 0, 0)), IsoFormat(Now2),
     IsoFormat(DateTime(1, 17, 0, 0, 0))}

\* the states a stored task can be in
StoredTasks ==
    {[Task(0, "call", tm, IsoFormat(Now1)) EXCEPT !.completed = c, !.notified = n] :
        tm \in StoredTimes, c \in BOOLEAN, n \in BOOLEAN}

\* task sequences of length <= MaxLen; the task at position i has id i
StoredSeqs ==
    UNION {{[i \in 1..n |-> [s[i] EXCEPT !.id = i]] : s \in [1..n -> StoredTasks]} : n \in 0..MaxLen}

\* the tasks file holds the tasks of user u1, or is absent
InitQuery ==
    /\ \E f \in {NoFile} \cup {FileOf(JsonDump([u \in {"u1"} |-> s]), 0) : s \in StoredSeqs} :
          files = [p \in Paths |-> IF p = TASKS_FILE THEN f ELSE NoFile]
    /\ clock = 0
    /\ cache = [p \in Paths |-> <<>>]
    /\ last_modified = [p \in Paths |-> <<>>]
    /\ nextId = 0
    /\ last = Idle
    /\ pending = [w \in Writers |-> <<>>]

QueryNext ==
    \/ \E u \in Users, now \in QueryNows : get_pending_tasks(u, now)
    \/ Return

\* get_pending_tasks over every stored document
SpecQuery == InitQuery /\ [][QueryNext]_vars

(* ------------------------------------------------------------------ *)
(* Properties                                                           *)
(* ------------------------------------------------------------------ *)

\* the document on disk, when the file exists and parses
OnDisk(p) == IF files[p].exists /\ files[p].text.valid THEN JsonLoad(files[p].text) ELSE EmptyDoc

\* the call that has just run ended in a failed save
SaveFailed(l) == l.outcome \in {"open_fail", "write_fail"}

\* C1: read-after-write. After safe_save_json(path, d) has returned True, the
\* next safe_load_json(path) returns a document equal to d, whatever the cache
\* held before and also when the file's modification time after the write is
\* the one the cache had recorded before it.
C1_ReadAfterWrite ==
    [][\A p \in Paths :
        (last'.op = "safe_save_json" /\ last'.path = p /\ last'.ret = PyBool(TRUE))
            => LoadView(p)' = last'.arg]_vars

\* a successful save of a document that differs from the cached one, at the
\* modification time the cache had recorded, and the load that follows sees it
C1_Witness ==
    /\ last.op = "safe_save_json"
    /\ last.ret = PyBool(TRUE)
    /\ last.pre = <<files[last.path].mtime>>
    /\ last.arg.v # EmptyDoc
    /\ LoadView(last.path) = last.arg

\* C2: after a failed save (alone, or as the last step of a store operation
\* that changed the loaded document), a load returns the value the document
\* had before the failed operation began.
C2_FailedSaveKeepsValue ==
    [][\A p \in Paths :
        (SaveFailed(last') /\ last'.path = p) => LoadView(p)' = LoadView(p)]_vars

\* C3: a save that fails leaves the file on disk exactly as it was.
C3_FailedSaveKeepsFile == [][SaveFailed(last') => files' = files]_vars

\* C4: when the cache holds an entry for a path whose recorded modification
\* time is the file's current one, the cached document is the document in the
\* file.
C4_CacheMatchesDisk ==
    \A p \in Paths :
        (cache[p] # <<>> /\ files[p].exists /\ last_modified[p] = <<files[p].mtime>>)
            => (files[p].text.valid /\ cache[p][1] = JsonLoad(files[p].text))

\* C5 as claimed: whenever another program replaces the content of a cached
\* file, at any modification time, the next load returns the new content.
C5_ExternalEditAlwaysSeen ==
    [][\A p \in Paths :
        (last'.op = "external_edit" /\ last'.path = p /\ cache[p] # <<>>
         /\ files'[p].text.valid)
            => LoadView(p)' = PyDict(JsonLoad(files'[p].text))]_vars

\* C5 amended: whenever another program replaces the content of a cached file
\* with a valid document and the file's modification time afterwards differs
\* from the one recorded in the cache, the next load returns the new content.
C5_ExternalEditSeenOnNewMtime ==
    [][\A p \in Paths :
        (last'.op = "external_edit" /\ last'.path = p /\ cache[p] # <<>>
         /\ files'[p].text.valid /\ last_modified[p] # <<files'[p].mtime>>)
            => LoadView(p)' = PyDict(JsonLoad(files'[p].text))]_vars

\* another program has replaced a cached document by a different one at a new
\* modification time, and a load returns the new one
C5_Witness ==
    /\ last.op = "external_edit"
    /\ cache[last.path] # <<>>
    /\ files[last.path].text.valid
    /\ last_modified[last.path] # <<files[last.path].mtime>>
    /\ cache[last.path][1] # JsonLoad(files[last.path].text)
    /\ LoadView(last.path) = PyDict(JsonLoad(files[last.path].text))

\* C6: a load of a file that exists but does not parse returns exactly the
\* caller's default (an empty document when the caller gave none) and leaves
\* the cache as it was; and once the file holds valid JSON again, a load
\* returns that document.
C6_CorruptLoadReturnsDefault ==
    [][\A p \in Paths :
        /\ (last'.op = "safe_load_json" /\ last'.path = p
            /\ files[p].exists /\ ~files[p].text.valid)
              => /\ last'.ret = (IF last'.arg = PyNone THEN PyDict(EmptyDoc) ELSE last'.arg)
                 /\ cache' = cache
                 /\ last_modified' = last_modified
        /\ (files[p].exists /\ ~files[p].text.valid /\ files'[p].text.valid)
              => LoadView(p)' = PyDict(JsonLoad(files'[p].text))]_vars

\* time texts that match none of the parser's forms
UnrecognizedTexts == {TextSoon}

\* C7: create_task with a time text the parser does not recognize returns a
\* failure result and persists nothing: the file and the cache are the same
\* before and after the call.
C7_UnparseableCreatesNothing ==
    [][(last'.op = "create_task" /\ last'.arg.text \in UnrecognizedTexts)
        => /\ last'.ret = PyBool(FALSE)
           /\ files' = files
           /\ cache' = cache
           /\ last_modified' = last_modified
           /\ nextId' = nextId]_vars

\* create_task has refused an unrecognized text while the file held a task
C7_Witness ==
    /\ last.op = "create_task"
    /\ last.arg.text = TextSoon
    /\ last.ret = PyBool(FALSE)
    /\ \E u \in DOMAIN OnDisk(TASKS_FILE) : Len(OnDisk(TASKS_FILE)[u]) > 0

\* C8: whenever create_task returns success, the user's persisted sequence is
\* the previous persisted sequence with exactly one task appended: not
\* completed, not notified, with the given reason and an id that is new in the
\* sequence; and a load that follows contains it.
C8_CreatePersistsOneTask ==
    [][(last'.op = "create_task" /\ last'.ret = PyBool(TRUE))
        => LET old == DictGet(OnDisk(TASKS_FILE), last'.user)
               new == DictGet(OnDisk(TASKS_FILE)', last'.user)
               seen == DictGet(LoadView(TASKS_FILE)'.v, last'.user)
           IN  /\ Len(new) = Len(old) + 1
               /\ SubSeq(new, 1, Len(old)) = old
               /\ ~new[Len(new)].completed
               /\ ~new[Len(new)].notified
               /\ new[Len(new)].reason = last'.arg.reason
               /\ \A i \in 1..Len(old) : old[i].id # new[Len(new)].id
               /\ \E i \in 1..Len(seen) : seen[i] = new[Len(new)]]_vars

\* the tasks of s, in order, that are neither completed nor notified and whose
\* stored time is a timestamp not after now
RECURSIVE DueSubSeq(_, _)
DueSubSeq(s, now) ==
    IF s = <<>> THEN <<>>
    ELSE LET due == /\ Head(s).completed = FALSE
                    /\ Head(s).notified = FALSE
                    /\ Head(s).time # BadIso
                    /\ ~DtLess(now, FromIsoFormat(Head(s).time))
         IN  (IF due THEN <<Head(s)>> ELSE <<>>) \o DueSubSeq(Tail(s), now)

\* C9: get_pending_tasks returns exactly the subsequence, in stored order, of
\* the user's stored tasks that are not completed, not notified and whose time
\* parses and is <= now (a task with an unparseable time is skipped, the scan
\* goes on), and the call leaves the stored document as it was.
C9_PendingIsDueSubsequence ==
    [][last'.op = "get_pending_tasks"
        => /\ last'.ret = PyList(DueSubSeq(DictGet(OnDisk(TASKS_FILE), last'.user), last'.arg))
           /\ files' = files]_vars

\* a query that returned a due task stored after a task with an unparseable
\* time, and left out a task of the same sequence
C9_Witness ==
    /\ last.op = "get_pending_tasks"
    /\ Len(last.ret.v) = 1
    /\ Len(DictGet(OnDisk(TASKS_FILE), last.user)) = 2
    /\ DictGet(OnDisk(TASKS_FILE), last.user)[1].time = BadIso
    /\ last.ret.v[1] = DictGet(OnDisk(TASKS_FILE), last.user)[2]
    /\ last.ret.v[1].time = IsoFormat(last.arg)

\* the tasks of user u in the document a load returns
ViewTasks(u) == DictGet(LoadView(TASKS_FILE).v, u)

\* C10: the notified and completed flags only move from false to true: a
\* task whose flag reads true keeps reading true after every later operation.
C10_FlagsStayTrue ==
    [][\A u \in Users, f \in {"notified", "completed"} :
        \A i \in 1..Len(ViewTasks(u)) :
            ViewTasks(u)[i][f]
                => \A j \in 1..Len(ViewTasks(u)') :
                      (ViewTasks(u)'[j].id = ViewTasks(u)[i].id) => ViewTasks(u)'[j][f]]_vars

(* ------------------------------------------------------------------ *)
(* Properties of the task store: unknown ids, deletion                  *)
(* ------------------------------------------------------------------ *)

\* the operations of TaskChecker
TaskOps == {"get_pending_tasks", "mark_task_notified", "mark_task_completed", "create_task"}

\* no task of the sequence s has the id
IdAbsent(s, id) == \A i \in 1..Len(s) : s[i].id # id

\* C11: mark_task_notified(user, id) and mark_task_completed(user, id) with an
\* id that is not in the user's sequence (also for a user without a key in the
\* tasks document) do not fail and leave the tasks document, with its set of
\* user keys, as it was. Stated for the calls whose save succeeds.
C11_MarkUnknownIsNoop ==
    [][(/\ last'.op \in {"mark_task_notified", "mark_task_completed"}
        /\ last'.outcome = "ok"
        /\ IdAbsent(ViewTasks(last'.user), last'.arg))
        => /\ last'.ret # PyRaise
           /\ OnDisk(TASKS_FILE)' = OnDisk(TASKS_FILE)
           /\ LoadView(TASKS_FILE)' = LoadView(TASKS_FILE)]_vars

\* C12: tasks are never deleted: every task in a user's stored sequence is
\* still in that user's stored sequence after every operation of the task
\* store, by any user, whatever its load meets and however its save ends.
C12_TasksNeverDeleted ==
    [][last'.op \in TaskOps
        => \A u \in Users :
              \A i \in 1..Len(DictGet(OnDisk(TASKS_FILE), u)) :
                 ~IdAbsent(DictGet(OnDisk(TASKS_FILE)', u),
                           DictGet(OnDisk(TASKS_FILE), u)[i].id)]_vars

(* ------------------------------------------------------------------ *)
(* The time parser over typed texts                                     *)
(* ------------------------------------------------------------------ *)

\* texts of the three forms, of two forms at once, and of digits that denote
\* no time of day
Text530PM == <<"5", ":", "3", "0", " ", "P", "M">>

Text12am == <<"1", "2", "a", "m">>

Text12pm == <<"1", "2", "p", "m">>

Text1700 == <<"1", "7", ":", "0", "0">>

Text605 == <<"6", ":", "0", "5">>

TextIn2Hours == <<"i", "n", " ", "2", " ", "h", "o", "u", "r", "s">>

TextIn1Hour == <<"i", "n", " ", "1", " ", "h", "o", "u", "r">>

TextIn30Hr == <<"i", "n", " ", "3", "0", " ", "h", "r">>

TextIn90Min == <<"i", "n", " ", "9", "0", " ", "m", "i", "n">>

TextIn5Minutes == <<"I", "n", " ", "5", " ", "m", "i", "n", "u", "t", "e", "s">>

TextIn45Minute == <<"i", "n", " ", "4", "5", " ", "m", "i", "n", "u", "t", "e">>

Text13pm == <<"1", "3", "p", "m">>

Text1075 == <<"1", "0", ":", "7", "5">>

Text600And5pm == <<"6", ":", "0", "0", " ", "5", "p", "m">>

TextIn2HrAnd5pm == <<"i", "n", " ", "2", " ", "h", "r", " ", "5", "p", "m">>

Text605AndIn2Hr == <<"6", ":", "0", "5", " ", "i", "n", " ", "2", " ", "h", "r">>

TextIn2HrAnd605 == <<"i", "n", " ", "2", " ", "h", "r", " ", "6", ":", "0", "5">>

\* clock-time texts with the hour and minute they denote
ClockInputs ==
    {[text |-> Text5pm, hour |-> 17, minute |-> 0],
     [text |-> Text530PM, hour |-> 17, minute |-> 30],
     [text |-> Text12am, hour |-> 0, minute |-> 0],
     [text |-> Text12pm, hour |-> 12, minute |-> 0],
     [text |-> Text1700, hour |-> 17, minute |-> 0],
     [text |-> Text605, hour |-> 6, minute |-> 5]}

\* relative-duration texts with the minutes they denote
RelativeInputs ==
    {[text |-> TextIn2Hours, minutes |-> 120],
     [text |-> TextIn1Hour, minutes |-> 60],
     [text |-> TextIn30Hr, minutes |-> 1800],
     [text |-> TextIn90Min, minutes |-> 90],
     [text |-> TextIn5Minutes, minutes |-> 5],
     [text |-> TextIn45Minute, minutes |-> 45]}

\* texts that hold two forms, with the text of the form that comes first in
\* the parser's order and the hour and minute it denotes
CombinedInputs ==
    {[text |-> Text530PM, wins |-> Text530PM, hour |-> 17, minute |-> 30],
     [text |-> Text600And5pm, wins |-> Text5pm, hour |-> 17, minute |-> 0],
     [text |-> TextIn2HrAnd5pm, wins |-> Text5pm, hour |-> 17, minute |-> 0],
     [text |-> Text605AndIn2Hr, wins |-> Text605, hour |-> 6, minute |-> 5],
     [text |-> TextIn2HrAnd605, wins |-> Text605, hour |-> 6, minute |-> 5]}

\* digits that match a clock pattern and denote no time of day
InvalidClockTexts == {Text13pm, Text2500, Text1075}

ParseTexts ==
    {c.text : c \in ClockInputs} \cup {c.text : c \in RelativeInputs}
        \cup {c.text : c \in CombinedInputs} \cup InvalidClockTexts \cup UnrecognizedTexts

\* readings of datetime.now(): 16:00:00, 17:00:00 sharp, 17:00:30.000005,
\* 06:05:00 sharp and 23:59:59.000007 of day 0
NowSharp == DateTime(0, 17, 0, 0, 0)

NowPast == DateTime(0, 17, 0, 30, 5)

NowMorning == DateTime(0, 6, 5, 0, 0)

NowLate == DateTime(0, 23, 59, 59, 7)

\* 00:00:00.000003 of day 1
NowNextDay == DateTime(1, 0, 0, 0, 3)

ParseNows == {Now1, NowSharp, NowPast, NowMorning, NowLate}

\* the two readings of datetime.now() inside one call: the same instant, or
\* the second reading later than the first, on the same day or past midnight
NowPairs ==
    {<<n, n>> : n \in ParseNows} \cup {<<NowSharp, NowPast>>, <<NowLate, NowNextDay>>}

\* a caller runs parse_time_input(text); now1 and now2 are what datetime.now()
\* returns at its first and at its second reading
ParseCall(text, now1, now2) ==
    /\ last = Idle
    /\ UNCHANGED pending
    /\ last' = Did("parse_time_input", "", "",
                   [text |-> text, now1 |-> now1, now2 |-> now2],
                   parse_time_input(text, now1, now2), "none", <<>>)
    /\ UNCHANGED <<files, clock, cache, last_modified, nextId>>

ParseNext ==
    \/ \E text \in ParseTexts, nows \in NowPairs : ParseCall(text, nows[1], nows[2])
    \/ Return

\* the parser applied to every text at every reading of the clock
SpecParse == Init /\ [][ParseNext]_vars

\* C13: parse_time_input never raises: it returns a timestamp or None for
\* every text and every now, also for digits that match a clock pattern and
\* denote no time of day, and None for a text that matches no form.
C13_ParserNeverRaises ==
    last.op = "parse_time_input"
        => /\ last.ret.kind \in {"time", "none"}
           /\ last.arg.text \in UnrecognizedTexts => last.ret = ParsedNone

\* C14: for a clock-time text the result is today at the parsed hour and
\* minute, seconds and sub-seconds zero, when that instant is strictly after
\* now, and that instant plus one day otherwise; so the result is strictly
\* after now. Stated for the calls in which both readings of the clock are
\* the same instant.
C14_ClockTimeStrictlyAfterNow ==
    \A c \in ClockInputs :
        (/\ last.op = "parse_time_input"
         /\ last.arg.text = c.text
         /\ last.arg.now1 = last.arg.now2)
        => LET now == last.arg.now1
               today == DateTime(now.day, c.hour, c.minute, 0, 0)
           IN  /\ last.ret = ParsedTime(IF DtLess(now, today) THEN today
                                        ELSE AddDays(today, 1))
               /\ DtLess(now, last.ret.dt)

\* C15: the forms are tried in the order meridiem, H:MM, relative, and the
\* first one that matches anywhere in the text alone determines the result: a
\* text with a meridiem time and another form yields the meridiem time, a text
\* with an H:MM time and a relative duration yields the H:MM time.
C15_FirstFormWins ==
    \A c \in CombinedInputs :
        (last.op = "parse_time_input" /\ last.arg.text = c.text)
        => /\ last.ret = parse_time_input(c.wins, last.arg.now1, last.arg.now2)
           /\ last.ret.kind = "time"
           /\ last.ret.dt.hour = c.hour
           /\ last.ret.dt.minute = c.minute
           /\ last.ret.dt.second = 0

\* "in 2 hr 5pm" read at 16:00 has given 17:00 of the same day, not 18:00
C15_Witness ==
    /\ last.op = "parse_time_input"
    /\ last.arg.text = TextIn2HrAnd5pm
    /\ last.arg.now1 = Now1
    /\ last.ret = ParsedTime(DateTime(0, 17, 0, 0, 0))

\* the seconds from the start of day 0 to dt
SecondsOf(dt) == ((dt.day * 24 + dt.hour) * 60 + dt.minute) * 60 + dt.second

\* C16: for 'in N <unit>' with unit minute, minutes, min, hour, hours or hr the
\* parser returns now plus exactly N minutes (N hours): the seconds and
\* sub-seconds of now are kept and no day is added beyond the duration.
C16_RelativeIsExact ==
    \A c \in RelativeInputs :
        (last.op = "parse_time_input" /\ last.arg.text = c.text)
        => /\ last.ret.kind = "time"
           /\ SecondsOf(last.ret.dt) = SecondsOf(last.arg.now1) + 60 * c.minutes
           /\ last.ret.dt.micro = last.arg.now1.micro
           /\ last.ret.dt.second = last.arg.now1.second
           /\ last.ret.dt.hour \in 0..23
           /\ last.ret.dt.minute \in 0..59

\* "in 90 min" read at 17:00:30.000005 has given 18:30:30.000005
C16_Witness ==
    /\ last.op = "parse_time_input"
    /\ last.arg.text = TextIn90Min
    /\ last.arg.now1 = NowPast
    /\ last.ret = ParsedTime(DateTime(0, 18, 30, 30, 5))

(* ------------------------------------------------------------------ *)
(* NoteManager                                                          *)
(* ------------------------------------------------------------------ *)

\* datetime.strftime("%B %d, %Y at %I:%M %p"): the day, the hour, the minute
StrfTime(dt) == [day |-> dt.day, hour |-> dt.hour, minute |-> dt.minute]

\* a note as add_note builds it and update_note rewrites it
Note(id, title, content, now) ==
    [id |-> id, title |-> title, content |-> content, timestamp |-> IsoFormat(now),
     date_display |-> StrfTime(now)]

\* identifiers of notes: 1..MaxTasks are the ones uuid4 hands out in this run,
\* -1 and 0 were written before this run
StoredNoteIds == {-1, 0}

NoteIds == StoredNoteIds \cup 1..MaxTasks

\* the titles of the stored notes, by position, and what the user types
StoredTitles == <<"first", "second", "third", "fourth">>

NewTitles == {"new"}

NewContents == {"text"}

\* the clock reading at which the stored notes were written, and the readings
\* at which notes are added and updated
NoteWritten == Now1

NoteNows == {Now2}

\* [n for n in user_notes if n['id'] != note_id]
WithoutId(user_notes, note_id) == SelectSeq(user_notes, LAMBDA n : n.id # note_id)

\* the loop of update_note: the first note with the id is rewritten, then break
UpdateFirst(user_notes, note_id, title, content, now) ==
    LET hits == {i \in 1..Len(user_notes) : user_notes[i].id = note_id}
    IN  IF hits = {} THEN user_notes
        ELSE LET i == CHOOSE x \in hits : \A y \in hits : x <= y
             IN  [user_notes EXCEPT ![i] = Note(user_notes[i].id, title, content, now)]

\* NoteManager.add_note(user_id, title, content) at the clock reading now
add_note(user_id, title, content, now, outcome) ==
    LET L == safe_load_json(cache, last_modified, files, NOTES_FILE, PyDict(EmptyDoc))
        new_note == Note(nextId + 1, title, content, now)
        notes == DictSet(L.ret.v, user_id, Append(DictGet(L.ret.v, user_id), new_note))
        S == safe_save_json(MutateLoaded(L, NOTES_FILE, notes), L.lm, files, NOTES_FILE,
                            notes, outcome, clock)
    IN  /\ last = Idle
        /\ UNCHANGED pending
        /\ nextId < MaxTasks
        /\ nextId' = nextId + 1
        /\ files' = S.files
        /\ cache' = S.cache
        /\ last_modified' = S.lm
        /\ last' = Did("add_note", NOTES_FILE, user_id,
                       [title |-> title, content |-> content, now |-> now],
                       PyBool(TRUE), outcome, last_modified[NOTES_FILE])
        /\ UNCHANGED clock

\* NoteManager.get_notes(user_id)
get_notes(user_id) ==
    LET L == safe_load_json(cache, last_modified, files, NOTES_FILE, PyDict(EmptyDoc))
    IN  /\ last = Idle
        /\ UNCHANGED pending
        /\ cache' = L.cache
        /\ last_modified' = L.lm
        /\ last' = Did("get_notes", NOTES_FILE, user_id, PyNone,
                       PyList(DictGet(L.ret.v, user_id)), "none", last_modified[NOTES_FILE])
        /\ UNCHANGED <<files, clock, nextId>>

\* NoteManager.delete_note(user_id, note_id)
delete_note(user_id, note_id, outcome) ==
    LET L == safe_load_json(cache, last_modified, files, NOTES_FILE, PyDict(EmptyDoc))
        notes == DictSet(L.ret.v, user_id, WithoutId(DictGet(L.ret.v, user_id), note_id))
        S == safe_save_json(MutateLoaded(L, NOTES_FILE, notes), L.lm, files, NOTES_FILE,
                            notes, outcome, clock)
    IN  /\ last = Idle
        /\ UNCHANGED pending
        /\ files' = S.files
        /\ cache' = S.cache
        /\ last_modified' = S.lm
        /\ last' = Did("delete_note", NOTES_FILE, user_id, note_id, PyBool(TRUE), outcome,
                       last_modified[NOTES_FILE])
        /\ UNCHANGED <<clock, nextId>>

\* NoteManager.update_note(user_id, note_id, title, content) at the clock
\* reading now
update_note(user_id, note_id, title, content, now, outcome) ==
    LET L == safe_load_json(cache, last_modified, files, NOTES_FILE, PyDict(EmptyDoc))
        notes == DictSet(L.ret.v, user_id,
                         UpdateFirst(DictGet(L.ret.v, user_id), note_id, title, content, now))
        S == safe_save_json(MutateLoaded(L, NOTES_FILE, notes), L.lm, files, NOTES_FILE,
                            notes, outcome, clock)
    IN  /\ last = Idle
        /\ UNCHANGED pending
        /\ files' = S.files
        /\ cache' = S.cache
        /\ last_modified' = S.lm
        /\ last' = Did("update_note", NOTES_FILE, user_id,
                       [id |-> note_id, title |-> title, content |-> content, now |-> now],
                       PyBool(TRUE), outcome, last_modified[NOTES_FILE])
        /\ UNCHANGED <<clock, nextId>>

\* note sequences of length <= MaxLen written before this run; the note at
\* position i has the i-th title, two notes may have the same id
StoredNoteSeqs ==
    UNION {{[i \in 1..n |-> Note(ids[i], StoredTitles[i], "old", NoteWritten)] :
                ids \in [1..n -> StoredNoteIds]} : n \in 0..MaxLen}

\* the notes file holds the notes of user u1, or is absent
InitNotes ==
    /\ \E f \in {NoFile} \cup {FileOf(JsonDump([u \in {"u1"} |-> s]), 0) : s \in StoredNoteSeqs} :
          files = [p \in Paths |-> IF p = NOTES_FILE THEN f ELSE NoFile]
    /\ clock = 0
    /\ cache = [p \in Paths |-> <<>>]
    /\ last_modified = [p \in Paths |-> <<>>]
    /\ nextId = 0
    /\ last = Idle
    /\ pending = [w \in Writers |-> <<>>]

\* the operations of the note store
NoteStep ==
    \/ \E u \in Users, t \in NewTitles, c \in NewContents, now \in NoteNows,
          o \in SaveOutcomes : add_note(u, t, c, now, o)
    \/ \E u \in Users : get_notes(u)
    \/ \E u \in Users, id \in NoteIds, o \in SaveOutcomes : delete_note(u, id, o)
    \/ \E u \in Users, id \in NoteIds, t \in NewTitles, c \in NewContents, now \in NoteNows,
          o \in SaveOutcomes : update_note(u, id, t, c, now, o)

NotesNext == NoteStep \/ Clear \/ Return

\* the note store over every stored notes document
SpecNotes == InitNotes /\ [][NotesNext]_vars

\* the notes of user u in the document a load returns
ViewNotes(u) == DictGet(LoadView(NOTES_FILE).v, u)

\* the position of the first note of s with the id (0 when there is none)
FirstWithId(s, id) ==
    IF IdAbsent(s, id) THEN 0
    ELSE CHOOSE i \in 1..Len(s) : s[i].id = id /\ \A j \in 1..(i - 1) : s[j].id # id

\* C17: whenever update_note on an id present in the user's sequence returns
\* success, the stored sequence has the same length, the note at the position
\* of the id has the same id and the new title, content, timestamp and
\* date_display, and every other note is as it was.
C17_UpdateReplacesInPlace ==
    [][(/\ last'.op = "update_note"
        /\ last'.ret = PyBool(TRUE)
        /\ ~IdAbsent(ViewNotes(last'.user), last'.arg.id))
        => LET old == ViewNotes(last'.user)
               new == DictGet(OnDisk(NOTES_FILE)', last'.user)
               i == FirstWithId(old, last'.arg.id)
           IN  /\ Len(new) = Len(old)
               /\ new[i] = Note(old[i].id, last'.arg.title, last'.arg.content, last'.arg.now)
               /\ \A j \in 1..Len(old) : j # i => new[j] = old[j]]_vars

\* C18: update_note with an id that is not in the user's sequence (also for a
\* user without a key in the notes document) is a no-op: the notes document,
\* with its set of user keys, is as it was. Stated for the calls whose save
\* succeeds.
C18_UpdateUnknownIsNoop ==
    [][(/\ last'.op = "update_note"
        /\ last'.outcome = "ok"
        /\ IdAbsent(ViewNotes(last'.user), last'.arg.id))
        => /\ OnDisk(NOTES_FILE)' = OnDisk(NOTES_FILE)
           /\ LoadView(NOTES_FILE)' = LoadView(NOTES_FILE)]_vars

\* C19: whenever delete_note returns success, it has removed from the user's
\* stored sequence every note with the id and nothing else: what remains is
\* the other notes in their order, and get_notes then returns that sequence.
C19_DeleteRemovesAllMatching ==
    [][\A u \in Users :
        (last'.op = "delete_note" /\ last'.ret = PyBool(TRUE) /\ last'.user = u)
        => /\ DictGet(OnDisk(NOTES_FILE)', u) = WithoutId(ViewNotes(u), last'.arg)
           /\ ViewNotes(u)' = WithoutId(ViewNotes(u), last'.arg)]_vars

(* ------------------------------------------------------------------ *)
(* TutorialManager                                                      *)
(* ------------------------------------------------------------------ *)

\* prefs.get(user_id, {})
PrefsOf(prefs, user_id) == IF user_id \in DOMAIN prefs THEN prefs[user_id] ELSE EmptyDoc

\* record.get(key, default)
PrefGet(record, key, default) == IF key \in DOMAIN record THEN record[key] ELSE default

\* record[key] = val
PrefSet(record, key, val) ==
    [k \in (DOMAIN record) \cup {key} |-> IF k = key THEN val ELSE record[k]]

\* TutorialManager.is_first_time(user_id)
is_first_time(user_id) ==
    LET L == safe_load_json(cache, last_modified, files, USER_PREFS_FILE, PyDict(EmptyDoc))
    IN  /\ last = Idle
        /\ UNCHANGED pending
        /\ cache' = L.cache
        /\ last_modified' = L.lm
        /\ last' = Did("is_first_time", USER_PREFS_FILE, user_id, PyNone,
                       PyBool(~PrefGet(PrefsOf(L.ret.v, user_id), "tutorial_shown", FALSE)),
                       "none", last_modified[USER_PREFS_FILE])
        /\ UNCHANGED <<files, clock, nextId>>

\* TutorialManager.mark_tutorial_complete(user_id): the result of the save is
\* not looked at and nothing is returned
mark_tutorial_complete(user_id, outcome) ==
    LET L == safe_load_json(cache, last_modified, files, USER_PREFS_FILE, PyDict(EmptyDoc))
        prefs == DictSet(L.ret.v, user_id,
                         PrefSet(PrefsOf(L.ret.v, user_id), "tutorial_shown", TRUE))
        S == safe_save_json(MutateLoaded(L, USER_PREFS_FILE, prefs), L.lm, files,
                            USER_PREFS_FILE, prefs, outcome, clock)
    IN  /\ last = Idle
        /\ UNCHANGED pending
        /\ files' = S.files
        /\ cache' = S.cache
        /\ last_modified' = S.lm
        /\ last' = Did("mark_tutorial_complete", USER_PREFS_FILE, user_id, PyNone, PyNone,
                       outcome, last_modified[USER_PREFS_FILE])
        /\ UNCHANGED <<clock, nextId>>

\* the records of user u1 a preferences file written before this run may hold
StoredPrefs ==
    {EmptyDoc,
     [k \in {"tutorial_shown"} |-> FALSE],
     [k \in {"tutorial_shown"} |-> TRUE],
     [k \in {"theme"} |-> "dark"]}

\* the preferences file is absent, holds no user, or holds a record of u1
InitPrefs ==
    /\ \E f \in {NoFile, FileOf(JsonDump(EmptyDoc), 0)}
                  \cup {FileOf(JsonDump([u \in {"u1"} |-> rec]), 0) : rec \in StoredPrefs} :
          files = [p \in Paths |-> IF p = USER_PREFS_FILE THEN f ELSE NoFile]
    /\ clock = 0
    /\ cache = [p \in Paths |-> <<>>]
    /\ last_modified = [p \in Paths |-> <<>>]
    /\ nextId = 0
    /\ last = Idle
    /\ pending = [w \in Writers |-> <<>>]

\* the operations of the tutorial preferences
PrefStep ==
    \/ \E u \in Users : is_first_time(u)
    \/ \E u \in Users, o \in SaveOutcomes : mark_tutorial_complete(u, o)

PrefsNext == PrefStep \/ Clear \/ Tick \/ Return

\* the tutorial preferences over every stored preferences document
SpecPrefs == InitPrefs /\ [][PrefsNext]_vars

\* what is_first_time(u) would return in the current state
IsFirstView(u) ==
    ~PrefGet(PrefsOf(LoadView(USER_PREFS_FILE).v, u), "tutorial_shown", FALSE)

\* the record of user u the file holds has tutorial_shown = true
ShownOnDisk(u) == PrefGet(PrefsOf(OnDisk(USER_PREFS_FILE), u), "tutorial_shown", FALSE)

\* C20: is_first_time(u) is true for a user without a record or without
\* tutorial_shown = true; it is false on the call that follows
\* mark_tutorial_complete(u) and on every later call; mark_tutorial_complete
\* creates the record of the user when it is absent.
C20_TutorialShownOnce ==
    [][\A u \in Users :
        /\ (last'.op = "is_first_time" /\ last'.user = u)
              => last'.ret = PyBool(~ShownOnDisk(u))
        /\ (last'.op = "mark_tutorial_complete" /\ last'.user = u)
              => /\ ~IsFirstView(u)'
                 /\ u \in DOMAIN OnDisk(USER_PREFS_FILE)'
        /\ ~IsFirstView(u) => ~IsFirstView(u)']_vars

(* ------------------------------------------------------------------ *)
(* Report of a failed save, missing files                               *)
(* ------------------------------------------------------------------ *)

\* the store operations that change a document and return a result
StoreMutations == {"create_task", "add_note", "update_note", "delete_note"}

\* C21: a write failure is reported to the caller: whenever the save inside
\* create_task, add_note, update_note or delete_note fails, the operation
\* returns a failure result and never a success result.
C21_WriteFailureReported ==
    (last.op \in StoreMutations /\ SaveFailed(last)) => last.ret # PyBool(TRUE)

\* another program (or the user) removes the file; the cache is not told
ExternalRemove(p) ==
    /\ last = Idle
    /\ UNCHANGED pending
    /\ files[p].exists
    /\ files' = [files EXCEPT ![p] = NoFile]
    /\ last' = Did("external_remove", p, "", PyNone, PyNone, "none", last_modified[p])
    /\ UNCHANGED <<clock, cache, last_modified, nextId>>

RemoveNext ==
    \/ CacheStep({TASKS_FILE})
    \/ SaveStep({TASKS_FILE})
    \/ ExternalRemove(TASKS_FILE)
    \/ Return

\* the generic layer over a file that can be removed behind its back
SpecRemove == Init /\ [][RemoveNext]_vars

\* C22: a load of a path whose file does not exist returns the caller's
\* default (an empty document when the caller gave none), raises nothing and
\* creates no cache entry, also when the cache still holds an entry for the
\* path from before the file was removed.
C22_MissingFileReturnsDefault ==
    [][\A p \in Paths :
        (last'.op = "safe_load_json" /\ last'.path = p /\ ~files[p].exists)
            => /\ last'.ret = (IF last'.arg = PyNone THEN PyDict(EmptyDoc) ELSE last'.arg)
               /\ cache' = cache
               /\ last_modified' = last_modified]_vars

(* ------------------------------------------------------------------ *)
(* fuzzy_similarity and fuzzy_match (difflib.SequenceMatcher)           *)
(* ------------------------------------------------------------------ *)

\* longest string compared
MaxStr == 3

\* the characters of the compared strings
Alphabet == {"a", "b", "c", "A"}

\* the strings of length <= MaxStr
Strings == UNION {[1..n -> Alphabet] : n \in 0..MaxStr}

\* thresholds of fuzzy_match, in hundredths (0.8 is the default)
Thresholds == {50, 80}

\* str.lower()
LowerAll(str) == [i \in 1..Len(str) |-> Lower(str[i])]

\* the length of the longest common block that starts at a[i] and b[j] and
\* stays within a[..ahi] and b[..bhi]
BlockLen(a, b, i, j, ahi, bhi) ==
    LET lens == {k \in 0..(ahi - i + 1) :
                    /\ j + k - 1 <= bhi
                    /\ \A x \in 0..(k - 1) : a[i + x] = b[j + x]}
    IN  CHOOSE k \in lens : \A y \in lens : y <= k

\* SequenceMatcher.find_longest_match(alo, ahi, blo, bhi) without junk: of the
\* longest matching blocks the one that starts earliest in a, and of those the
\* one that starts earliest in b. Bounds are inclusive; size 0 when no
\* character matches
find_longest_match(a, b, alo, ahi, blo, bhi) ==
    LET pairs == (alo..ahi) \X (blo..bhi)
        best == CHOOSE p \in pairs :
                    \A q \in pairs :
                        \/ BlockLen(a, b, p[1], p[2], ahi, bhi) > BlockLen(a, b, q[1], q[2], ahi, bhi)
                        \/ /\ BlockLen(a, b, p[1], p[2], ahi, bhi) = BlockLen(a, b, q[1], q[2], ahi, bhi)
                           /\ (p[1] < q[1] \/ (p[1] = q[1] /\ p[2] <= q[2]))
    IN  [i |-> best[1], j |-> best[2], size |-> BlockLen(a, b, best[1], best[2], ahi, bhi)]

\* the sum of the sizes of get_matching_blocks() within a[alo..ahi], b[blo..bhi]:
\* the longest block, then the pieces to its left and to its right
RECURSIVE MatchCount(_, _, _, _, _, _)
MatchCount(a, b, alo, ahi, blo, bhi) ==
    IF alo > ahi \/ blo > bhi THEN 0
    ELSE LET m == find_longest_match(a, b, alo, ahi, blo, bhi)
         IN  IF m.size = 0 THEN 0
             ELSE m.size
                  + MatchCount(a, b, alo, m.i - 1, blo, m.j - 1)
                  + MatchCount(a, b, m.i + m.size, ahi, m.j + m.size, bhi)

\* SequenceMatcher(None, a, b).ratio() as a fraction: 2.0 * matches / length,
\* and 1.0 when both strings are empty
Ratio(a, b) ==
    IF Len(a) + Len(b) = 0 THEN [num |-> 1, den |-> 1]
    ELSE [num |-> 2 * MatchCount(a, b, 1, Len(a), 1, Len(b)), den |-> Len(a) + Len(b)]

\* fuzzy_similarity(str1, str2)
fuzzy_similarity(str1, str2) == Ratio(LowerAll(str1), LowerAll(str2))

\* fuzzy_match(str1, str2, threshold): ratio >= threshold, threshold in hundredths
fuzzy_match(str1, str2, threshold) ==
    LET ratio == Ratio(LowerAll(str1), LowerAll(str2))
    IN  ratio.num * 100 >= threshold * ratio.den

\* a caller compares two strings
FuzzyCall(str1, str2, threshold) ==
    /\ last = Idle
    /\ UNCHANGED pending
    /\ last' = Did("fuzzy_similarity", "", "",
                   [str1 |-> str1, str2 |-> str2, threshold |-> threshold],
                   [ratio |-> fuzzy_similarity(str1, str2),
                    match |-> fuzzy_match(str1, str2, threshold)], "none", <<>>)
    /\ UNCHANGED <<files, clock, cache, last_modified, nextId>>

FuzzyNext ==
    \/ \E str1 \in Strings, str2 \in Strings, t \in Thresholds : FuzzyCall(str1, str2, t)
    \/ Return

\* the matcher applied to every pair of strings
SpecFuzzy == Init /\ [][FuzzyNext]_vars

\* C23: the similarity is symmetric: fuzzy_similarity(a, b) equals
\* fuzzy_similarity(b, a) for all strings, and so fuzzy_match(a, b, t) equals
\* fuzzy_match(b, a, t) for every threshold.
C23_SimilaritySymmetric ==
    last.op = "fuzzy_similarity"
        => /\ last.ret.ratio = fuzzy_similarity(last.arg.str2, last.arg.str1)
           /\ last.ret.match = fuzzy_match(last.arg.str2, last.arg.str1, last.arg.threshold)

(* ------------------------------------------------------------------ *)
(* Two add_note calls that overlap                                      *)
(* ------------------------------------------------------------------ *)

\* number of add_note calls of one run when calls can overlap
MaxAdds == 2

\* the writers that have loaded and not yet saved
Loaded == {w \in Writers : pending[w] # <<>>}

\* a name for a dict object that no writer holds
FreshObject ==
    CHOOSE k \in 1..(Cardinality(Writers) + 1) : \A v \in Loaded : pending[v][1].object # k

\* DataCache.get returns the object the cache holds (line 74)
CacheHit(p) ==
    /\ files[p].exists
    /\ cache[p] # <<>>
    /\ last_modified[p] = <<files[p].mtime>>

\* a load that copies: the other writer never sees the append
AfterAppend_copied(rec, object, notes) == rec

\* what another writer holds after this writer has run
\* notes[user_id].append(new_note) on its object: the same dict object shows
\* the append, a different one does not
AfterAppend(rec, object, notes) ==
    IF rec.object = object THEN [rec EXCEPT !.notes = notes] ELSE rec

\* the first half of add_note: notes = load_json(NOTES_FILE, {}). The writer
\* holds the object the cache holds (on a hit the one other writers got from
\* the cache too), or a new {} when the file is absent or does not parse
add_note_load(w, user_id, title, content, now) ==
    LET L == safe_load_json(cache, last_modified, files, NOTES_FILE, PyDict(EmptyDoc))
        holders == {v \in Loaded : pending[v][1].incache}
        hit == CacheHit(NOTES_FILE)
        object == IF hit /\ holders # {} THEN pending[CHOOSE v \in holders : TRUE][1].object
                  ELSE FreshObject
        rec == [user |-> user_id, title |-> title, content |-> content, now |-> now,
                notes |-> L.ret.v, object |-> object, incache |-> L.aliased,
                overlap |-> {}]
    IN  /\ last = Idle
        /\ pending[w] = <<>>
        /\ nextId + Cardinality(Loaded) < MaxAdds
        /\ cache' = L.cache
        /\ last_modified' = L.lm
        /\ pending' = [v \in Writers |->
                          IF v = w THEN <<rec>>
                          ELSE IF pending[v] = <<>> THEN <<>>
                          ELSE <<[pending[v][1] EXCEPT
                                     !.incache = @ /\ (hit \/ ~L.aliased)]>>]
        /\ UNCHANGED <<files, clock, nextId, last>>

\* the second half of add_note: the append on the loaded object, the save,
\* return True. overlap: the notes other writers have saved since this
\* writer's load, each with the object it was appended to
add_note_save(w, outcome) ==
    LET me == pending[w][1]
        new_note == Note(nextId + 1, me.title, me.content, me.now)
        notes == DictSet(me.notes, me.user, Append(DictGet(me.notes, me.user), new_note))
        S == safe_save_json(IF me.incache THEN [cache EXCEPT ![NOTES_FILE] = <<notes>>]
                            ELSE cache,
                            last_modified, files, NOTES_FILE, notes, outcome, clock)
        saved == IF outcome = "ok" THEN {[id |-> new_note.id, object |-> me.object]} ELSE {}
    IN  /\ last = Idle
        /\ pending[w] # <<>>
        /\ nextId' = nextId + 1
        /\ files' = S.files
        /\ cache' = S.cache
        /\ last_modified' = S.lm
        /\ pending' = [v \in Writers |->
                          IF v = w \/ pending[v] = <<>> THEN <<>>
                          ELSE <<[AfterAppend(pending[v][1], me.object, notes) EXCEPT
                                     !.incache = @ /\ outcome # "ok",
                                     !.overlap = @ \cup saved]>>]
        /\ last' = Did("add_note", NOTES_FILE, me.user,
                       [title |-> me.title, content |-> me.content, now |-> me.now,
                        id |-> new_note.id, object |-> me.object, overlap |-> me.overlap],
                       PyBool(TRUE), outcome, last_modified[NOTES_FILE])
        /\ UNCHANGED clock

WritersNext ==
    \/ \E w \in Writers, u \in Users, t \in NewTitles, c \in NewContents, now \in NoteNows :
          add_note_load(w, u, t, c, now)
    \/ \E w \in Writers, o \in SaveOutcomes : add_note_save(w, o)
    \/ Return

\* add_note calls of two writers, interleaved at the load and at the save
SpecWriters == InitNotes /\ [][WritersNext]_vars

\* the ids of the notes of all users in the notes document on disk
IdsOnDisk ==
    UNION {{OnDisk(NOTES_FILE)[u][i].id : i \in 1..Len(OnDisk(NOTES_FILE)[u])} :
              u \in DOMAIN OnDisk(NOTES_FILE)}

\* C24 as claimed: when a writer's load came before another writer's save,
\* the document after both saves holds the later saver's note and not the
\* other writer's note.
C24_LostUpdate ==
    (last.op = "add_note" /\ last.outcome = "ok" /\ last.arg.overlap # {})
        => /\ last.arg.id \in IdsOnDisk
           /\ \A o \in last.arg.overlap : o.id \notin IdsOnDisk

\* C24 amended: the document after both saves holds the later saver's note;
\* it lacks the other writer's note when the two loads returned different
\* dict objects (the file was absent or did not parse: each load made a new
\* {}), and holds it when both loads returned the one object of the cache.
C24_LostUpdateOnDistinctObjects ==
    (last.op = "add_note" /\ last.outcome = "ok" /\ last.arg.overlap # {})
        => /\ last.arg.id \in IdsOnDisk
           /\ \A o \in last.arg.overlap :
                 (o.id \in IdsOnDisk) <=> (o.object = last.arg.object)

\* two writers have loaded while the file was absent, both have saved, and
\* the note of the first saver is gone
C24_Witness ==
    /\ last.op = "add_note"
    /\ last.outcome = "ok"
    /\ \E o \in last.arg.overlap : o.object # last.arg.object /\ o.id \notin IdsOnDisk
    /\ last.arg.id \in IdsOnDisk

(* ------------------------------------------------------------------ *)
(* The three stores and the users' keys                                 *)
(* ------------------------------------------------------------------ *)

\* the operations of TaskChecker, NoteManager and TutorialManager
StoreOps ==
    TaskOps \cup {"add_note", "get_notes", "delete_note", "update_note"}
            \cup {"is_first_time", "mark_tutorial_complete"}

\* C25: user isolation: every operation of the task, note and preference
\* stores invoked for one user leaves what the store's document holds under
\* every other user's key unchanged, and leaves the files of the other
\* record types unchanged.
C25_UserIsolation ==
    [][last'.op \in StoreOps
        => \A p \in Paths :
              IF p = last'.path
              THEN \A u \in Users :
                      u # last'.user => DictGet(OnDisk(p)', u) = DictGet(OnDisk(p), u)
              ELSE files'[p] = files[p]]_vars

(* ------------------------------------------------------------------ *)
(* Clock times and the day ahead                                        *)
(* ------------------------------------------------------------------ *)

====
